---- MODULE Spec2Model ----
(***************************************************************************)
(* Model of src/bot.py: a Telegram relay bot.  Every inbound update is     *)
(* dispatched by main() to the first handler whose filter matches; the     *)
(* handler forwards user messages to the administrator, routes the         *)
(* administrator's replies back through bot_data["forwarded_map"], and     *)
(* answers the user according to bot_data["admin_available"].              *)
(*                                                                         *)
(* The Application is built without concurrent_updates, so one update is   *)
(* processed to completion before the next one starts: every handler is    *)
(* one action.  The outcome of each outbound transport call (success or    *)
(* exception) and of the generation call is chosen nondeterministically.   *)
(***************************************************************************)
EXTENDS Integers, Sequences, FiniteSets, TLC

VARIABLES
    bot_data,       \* context.bot_data: the dict kept by the persistence
    genai_client,   \* TRUE iff the module-level genai_client is not None
    pkl,            \* the bot_data last written to bot_data.pkl
    origin,         \* history: forwarded message id -> conversation it came from
    admin_cmd,      \* history: the administrator's latest /available or /away
    last,           \* the update handled last and everything its handler did
    tasks           \* the handlers in progress when updates are handled concurrently

vars == <<bot_data, genai_client, pkl, origin, admin_cmd, last, tasks>>

----------------------------------------------------------------------------
(* Bounds of the model *)

\* message ids the transport hands out in the administrator's chat: 1..MaxMsgId
MaxMsgId == 2

\* handlers that can be in progress at the same time
MaxTasks == 2

----------------------------------------------------------------------------
(* Identities and conversations *)

ADMIN_ID == 1

\* the other senders
Users == {2}

\* group conversations (negative ids in the transport)
Groups == {-1}

Senders == {ADMIN_ID} \cup Users

\* the conversations: the administrator's private chat with the bot, which
\* has the id of its user, and the groups
Chats == {ADMIN_ID} \cup Groups

MsgIds == 1..MaxMsgId

\* Python's None, and a present optional value
None == <<>>

Some(v) == <<v>>

----------------------------------------------------------------------------
(* Text.  A text is either one of the program's string literals, Lit(s),   *)
(* or character data in run-length form, Runs(r): r is a sequence of runs  *)
(* [c |-> character, n |-> how many times].                                *)

Lit(s) == [lit |-> s]

Runs(r) == [runs |-> r]

IsLit(t) == "lit" \in DOMAIN t

\* The literals are written in ASCII: the dash of lines 63 and 148 is "-" and
\* the pictographs of lines 99, 108, 111 and 148 are left out.
NOTE_48H == Lit("Admin will reply in 48 hours.")

NOW_AVAILABLE == Lit("Admin is now AVAILABLE.")

NOW_AWAY == Lit("Admin is now AWAY.")

CANNOT_FIND_USER == Lit("Cannot find the user to reply to.")

SENT_TO_USER == Lit("Sent to user.")

FAILED_TO_SEND == Lit("Failed to send message to user.")

AWAY_REPLYING == Lit("Admin is away - I'm replying...")

NO_CLIENT_TEXT == Lit("Sorry, I cannot reply right now.")

GEMINI_ERROR_TEXT == Lit("Sorry - I can't reply right now.")

\* len() of the literals that reach a len() call (the returns of ask_gemini)
LitLen(s) ==
    CASE s = "Sorry, I cannot reply right now." -> 32
      [] s = "Sorry - I can't reply right now." -> 32

RECURSIVE RunsLen(_)
RunsLen(r) == IF r = <<>> THEN 0 ELSE Head(r).n + RunsLen(Tail(r))

\* len(t)
len(t) == IF IsLit(t) THEN LitLen(t.lit) ELSE RunsLen(t.runs)

\* r[:k] on runs
RECURSIVE Take(_, _)
Take(r, k) ==
    IF k <= 0 \/ r = <<>> THEN <<>>
    ELSE IF Head(r).n <= k THEN <<Head(r)>> \o Take(Tail(r), k - Head(r).n)
    ELSE <<[c |-> Head(r).c, n |-> k]>>

\* r + s on runs; adjacent runs of one character are one run
Concat(r, s) ==
    IF r = <<>> THEN s
    ELSE IF s = <<>> THEN r
    ELSE IF r[Len(r)].c = s[1].c
         THEN SubSeq(r, 1, Len(r) - 1)
              \o <<[c |-> s[1].c, n |-> r[Len(r)].n + s[1].n]>>
              \o Tail(s)
         ELSE r \o s

ELLIPSIS == <<[c |-> ".", n |-> 3]>>

MAX_REPLY_LEN == 4000

TRUNCATED_BODY_LEN == 3990

\* Truncate with the slice taken at the limit itself: reply[:4000] + "..."
Truncate_SliceAtLimit(reply) ==
    IF len(reply) > MAX_REPLY_LEN
    THEN Runs(Concat(Take(reply.runs, MAX_REPLY_LEN), ELLIPSIS))
    ELSE reply

\* Truncate without the marker: reply[:3990]
Truncate_NoEllipsis(reply) ==
    IF len(reply) > MAX_REPLY_LEN
    THEN Runs(Take(reply.runs, TRUNCATED_BODY_LEN))
    ELSE reply

\* lines 151-152.  Only service text can be longer than MAX_REPLY_LEN (the
\* literals are 32 characters), so the slice is taken on runs.
Truncate(reply) ==
    IF len(reply) > MAX_REPLY_LEN
    THEN Runs(Concat(Take(reply.runs, TRUNCATED_BODY_LEN), ELLIPSIS))
    ELSE reply

----------------------------------------------------------------------------
(* bot_data: a dict with the optional keys "admin_available" and           *)
(* "forwarded_map"                                                         *)

\* d.get(k, default)
Get(d, k, default) == IF k \in DOMAIN d THEN d[k] ELSE default

\* d[k] = v
Put(d, k, v) == [x \in DOMAIN d \cup {k} |-> IF x = k THEN v ELSE d[x]]

EmptyMap == <<>>

\* context.bot_data.get("admin_available", False)
AdminAvailable(bd) == Get(bd, "admin_available", FALSE)

\* context.bot_data.get("forwarded_map", {})
ForwardedMap(bd) == Get(bd, "forwarded_map", EmptyMap)

----------------------------------------------------------------------------
(* Updates.  An update is a message of `user' in conversation `chat'.      *)
(* kind: "start", "available", "away" are the three registered commands,   *)
(* "command" is any other command, "text" a plain text message and         *)
(* "photo" a message without text.  reply_to is the id of the message it   *)
(* replies to, or None.                                                    *)

Kinds == {"start", "available", "away", "command", "text", "photo"}

\* the conversations a sender writes in: the administrator in the private
\* chat with the bot, a user in the groups
ChatsOf(user) == IF user = ADMIN_ID THEN {user} ELSE Groups

\* a message is written in a conversation of its sender
ValidUpdate(u) == u.chat \in ChatsOf(u.user)

Updates ==
    { u \in [user : Senders, chat : Chats, kind : Kinds,
             reply_to : {None} \cup {Some(i) : i \in MsgIds}] : ValidUpdate(u) }

NoUpdate == [user |-> 0, chat |-> 0, kind |-> "none", reply_to |-> None]

\* the text a user types: "hello"
USER_TEXT ==
    Runs(<<[c |-> "h", n |-> 1], [c |-> "e", n |-> 1],
           [c |-> "l", n |-> 2], [c |-> "o", n |-> 1]>>)

\* update.message.text: None for a message without text
MessageText(u) ==
    CASE u.kind = "photo"     -> None
      [] u.kind = "text"      -> Some(USER_TEXT)
      [] u.kind = "start"     -> Some(Lit("/start"))
      [] u.kind = "available" -> Some(Lit("/available"))
      [] u.kind = "away"      -> Some(Lit("/away"))
      [] u.kind = "command"   -> Some(Lit("/help"))

\* filters.COMMAND: the text starts with a command
FilterCommand(u) == u.kind \in {"start", "available", "away", "command"}

\* filters.REPLY
FilterReply(u) == u.reply_to # None

\* filters.PHOTO | filters.STICKER | filters.DOCUMENT | filters.VOICE
FilterPhoto(u) == u.kind = "photo"

\* main(), lines 177-182: the handlers are tried in the order they were
\* added and the first whose filter matches handles the update alone.
Handler(u) ==
    IF u.kind = "start" THEN "start_cmd"
    ELSE IF u.kind = "available" THEN "available_cmd"
    ELSE IF u.kind = "away" THEN "away_cmd"
    ELSE IF FilterReply(u) THEN "admin_reply_handler"
    ELSE IF FilterPhoto(u) THEN "photo_handler"
    ELSE IF ~FilterCommand(u) THEN "handle_message"
    ELSE "none"

----------------------------------------------------------------------------
(* Outbound calls.  ok = FALSE: the call raised.                           *)

\* context.bot.send_message(chat_id, text)
SendMessage(chat_id, text, ok) ==
    [op |-> "send_message", chat_id |-> chat_id, text |-> text, ok |-> ok]

\* update.message.reply_text(text): a send into the update's conversation
ReplyText(u, text, ok) ==
    [op |-> "reply_text", chat_id |-> u.chat, text |-> text, ok |-> ok]

\* context.bot.forward_message(chat_id, from_chat_id, message_id) of the
\* update's own message; id: the id of the copy (None when the call raised)
ForwardMessage(chat_id, u, id) ==
    [op |-> "forward_message", chat_id |-> chat_id, from_chat_id |-> u.chat,
     id |-> id, ok |-> id # None]

\* what a handler did: the new bot_data, the outbound calls in order, the
\* generate_content calls in order (what each did), and whether an
\* exception left the handler
Outcome(bd, calls, gen, raised) ==
    [bot_data |-> bd, calls |-> calls, gen |-> gen, raised |-> raised]

----------------------------------------------------------------------------
(* Commands, lines 70-83 *)

start_cmd(u, bd) ==
    { Outcome(bd, <<ReplyText(u, NOTE_48H, ok)>>, <<>>, ~ok) : ok \in BOOLEAN }

\* available_cmd without the identity check of lines 74-75
available_cmd_NoIdentityCheck(u, bd) ==
    { Outcome(Put(bd, "admin_available", TRUE),
              <<ReplyText(u, NOW_AVAILABLE, ok)>>, <<>>, ~ok) : ok \in BOOLEAN }

available_cmd(u, bd) ==
    IF u.user # ADMIN_ID
    THEN { Outcome(bd, <<>>, <<>>, FALSE) }
    ELSE { Outcome(Put(bd, "admin_available", TRUE),
                   <<ReplyText(u, NOW_AVAILABLE, ok)>>, <<>>, ~ok) : ok \in BOOLEAN }

\* away_cmd clearing the flag only once the confirmation went through
away_cmd_SetAfterReply(u, bd) ==
    IF u.user # ADMIN_ID
    THEN { Outcome(bd, <<>>, <<>>, FALSE) }
    ELSE { Outcome(IF ok THEN Put(bd, "admin_available", FALSE) ELSE bd,
                   <<ReplyText(u, NOW_AWAY, ok)>>, <<>>, ~ok) : ok \in BOOLEAN }

away_cmd(u, bd) ==
    IF u.user # ADMIN_ID
    THEN { Outcome(bd, <<>>, <<>>, FALSE) }
    ELSE { Outcome(Put(bd, "admin_available", FALSE),
                   <<ReplyText(u, NOW_AWAY, ok)>>, <<>>, ~ok) : ok \in BOOLEAN }

----------------------------------------------------------------------------
(* admin_reply_handler, lines 86-111 *)

\* ResolveOrigin falling back to the newest entry for an unknown id
ResolveOrigin_NewestForUnknown(fmap, id) ==
    IF id \in DOMAIN fmap THEN Some(fmap[id])
    ELSE IF DOMAIN fmap # {}
         THEN Some(fmap[CHOOSE k \in DOMAIN fmap : \A j \in DOMAIN fmap : j <= k])
         ELSE None

\* forwarded_map.get(replied.message_id)
ResolveOrigin(fmap, id) == IF id \in DOMAIN fmap THEN Some(fmap[id]) ELSE None

\* Python's `not x' for an optional integer
Falsy(x) == x = None \/ x[1] = 0

\* lines 104-107: the text if the reply has one, else a forward of the message
Deliver(u, user_chat_id, ok) ==
    IF MessageText(u) # None
    THEN SendMessage(user_chat_id, MessageText(u)[1], ok)
    ELSE ForwardMessage(user_chat_id, u, IF ok THEN Some(0) ELSE None)

\* lines 102-111: the try block and its handler
DeliverAndConfirm(u, bd, user_chat_id) ==
    { Outcome(bd, <<Deliver(u, user_chat_id, TRUE),
                    ReplyText(u, SENT_TO_USER, TRUE)>>, <<>>, FALSE) }
    \cup
    { Outcome(bd, <<Deliver(u, user_chat_id, TRUE),
                    ReplyText(u, SENT_TO_USER, FALSE),
                    ReplyText(u, FAILED_TO_SEND, ok)>>, <<>>, ~ok) : ok \in BOOLEAN }
    \cup
    { Outcome(bd, <<Deliver(u, user_chat_id, FALSE),
                    ReplyText(u, FAILED_TO_SEND, ok)>>, <<>>, ~ok) : ok \in BOOLEAN }

\* admin_reply_handler without the check of the sender
admin_reply_handler_NoIdentityCheck(u, bd) ==
    IF u.reply_to = None THEN { Outcome(bd, <<>>, <<>>, FALSE) }
    ELSE LET user_chat_id == ResolveOrigin(ForwardedMap(bd), u.reply_to[1])
         IN  IF Falsy(user_chat_id)
             THEN { Outcome(bd, <<ReplyText(u, CANNOT_FIND_USER, ok)>>, <<>>, ~ok) :
                      ok \in BOOLEAN }
             ELSE DeliverAndConfirm(u, bd, user_chat_id[1])

admin_reply_handler(u, bd) ==
    IF u.user # ADMIN_ID THEN { Outcome(bd, <<>>, <<>>, FALSE) }
    ELSE IF u.reply_to = None THEN { Outcome(bd, <<>>, <<>>, FALSE) }
    ELSE LET user_chat_id == ResolveOrigin(ForwardedMap(bd), u.reply_to[1])
         IN  IF Falsy(user_chat_id)
             THEN { Outcome(bd, <<ReplyText(u, CANNOT_FIND_USER, ok)>>, <<>>, ~ok) :
                      ok \in BOOLEAN }
             ELSE DeliverAndConfirm(u, bd, user_chat_id[1])

----------------------------------------------------------------------------
(* ask_gemini, lines 51-64 *)

\* a service text of k characters: the first half "a", the rest "b"
ServiceText(k) ==
    Runs(Concat(IF k - k \div 2 > 0 THEN <<[c |-> "a", n |-> k - k \div 2]>> ELSE <<>>,
                IF k \div 2 > 0 THEN <<[c |-> "b", n |-> k \div 2]>> ELSE <<>>))

\* the lengths of response.text that are tried: empty, short, and the two
\* sides of the limit of line 151
ResponseLens == {0, 1, MAX_REPLY_LEN, MAX_REPLY_LEN + 1}

\* str(response), used when response.text is empty
RESPONSE_REPR == Runs(<<[c |-> "r", n |-> MAX_REPLY_LEN + 1]>>)

\* what generate_content does: it raises (ok = FALSE) or returns a response
\* with the given text
Generations ==
    { [ok |-> TRUE, text |-> ServiceText(k)] : k \in ResponseLens }
        \cup { [ok |-> FALSE, text |-> Runs(<<>>)] }

\* ask_gemini letting the empty text through when generate_content raises
ask_gemini_EmptyOnError(client, g) ==
    IF ~client THEN NO_CLIENT_TEXT
    ELSE IF g.text # Runs(<<>>) THEN g.text
    ELSE IF ~g.ok THEN Runs(<<>>)
    ELSE RESPONSE_REPR

\* ask_gemini(prompt) when generate_content behaves as g
ask_gemini(client, g) ==
    IF ~client THEN NO_CLIENT_TEXT
    ELSE IF ~g.ok THEN GEMINI_ERROR_TEXT
    ELSE IF g.text # Runs(<<>>) THEN g.text
    ELSE RESPONSE_REPR

----------------------------------------------------------------------------
(* handle_message, lines 114-167 *)

\* the id the transport gives the next copy it delivers into the
\* administrator's chat: ids are unique in a chat and grow; none is left
\* when MaxMsgId copies were delivered
FreshIds == { i \in MsgIds : i = Cardinality(DOMAIN origin) + 1 }

\* RecordForward with the entry as the default of setdefault:
\* bot_data.setdefault("forwarded_map", {id: chat_id})
RecordForward_SetDefaultOnly(bd, id, chat_id) ==
    IF "forwarded_map" \in DOMAIN bd THEN bd
    ELSE Put(bd, "forwarded_map", Put(EmptyMap, id, chat_id))

\* RecordForward moving every entry to the conversation recorded
RecordForward_Rehome(bd, id, chat_id) ==
    Put(bd, "forwarded_map",
        [k \in DOMAIN ForwardedMap(bd) \cup {id} |-> chat_id])

\* RecordForward replacing the map: bot_data["forwarded_map"] = {id: chat_id}
RecordForward_FreshMap(bd, id, chat_id) ==
    Put(bd, "forwarded_map", Put(EmptyMap, id, chat_id))

\* line 128: bot_data.setdefault("forwarded_map", {})[forwarded.message_id] = chat_id
RecordForward(bd, id, chat_id) ==
    Put(bd, "forwarded_map", Put(ForwardedMap(bd), id, chat_id))

\* line 132: the text of the fallback notification
FallbackText(u) ==
    [fmt |-> "Message from {first_name} ({id}):\n{text}", id |-> u.user,
     text |-> IF MessageText(u) = None THEN Runs(<<>>) ELSE MessageText(u)[1]]

\* ForwardToAdmin without the fallback notification
ForwardToAdmin_NoFallback(u, bd) ==
    { Outcome(RecordForward(bd, f, u.chat),
              <<ForwardMessage(ADMIN_ID, u, Some(f))>>, <<>>, FALSE) : f \in FreshIds }
    \cup
    { Outcome(bd, <<ForwardMessage(ADMIN_ID, u, None)>>, <<>>, FALSE) }

\* lines 121-134: the forward, the routing entry and the fallback
ForwardToAdmin(u, bd) ==
    { Outcome(RecordForward(bd, f, u.chat),
              <<ForwardMessage(ADMIN_ID, u, Some(f))>>, <<>>, FALSE) : f \in FreshIds }
    \cup
    { Outcome(bd, <<ForwardMessage(ADMIN_ID, u, None),
                    SendMessage(ADMIN_ID, FallbackText(u), ok)>>, <<>>, FALSE) :
        ok \in BOOLEAN }

\* lines 138-144: the administrator is available
AvailableBranch(u) ==
    { Outcome(<<>>, <<ReplyText(u, NOTE_48H, ok)>>, <<>>, FALSE) : ok \in BOOLEAN }

\* no closing note
ClosingNote_Missing(u) == { <<>> }

\* lines 163-167: the closing note
ClosingNote(u) == { <<ReplyText(u, NOTE_48H, ok)>> : ok \in BOOLEAN }

\* lines 147-156: the administrator is away and genai_client is set
GeminiBranch(u) ==
    { Outcome(<<>>, <<ReplyText(u, AWAY_REPLYING, FALSE)>>, <<>>, TRUE) }
    \cup
    { Outcome(<<>>, <<ReplyText(u, AWAY_REPLYING, TRUE),
                      ReplyText(u, Truncate(ask_gemini(genai_client, g)), ok)>>
                    \o note, <<g>>, FALSE) :
        g \in Generations, ok \in BOOLEAN, note \in ClosingNote(u) }

\* lines 157-161: the administrator is away and there is no genai_client
SimpleBranch(u) ==
    { Outcome(<<>>, <<ReplyText(u, NOTE_48H, ok)>> \o note, <<>>, FALSE) :
        ok \in BOOLEAN, note \in ClosingNote(u) }

\* ReplyToUser testing genai_client before admin_available
ReplyToUser_ClientFirst(u, bd) ==
    IF genai_client THEN GeminiBranch(u)
    ELSE IF AdminAvailable(bd) THEN AvailableBranch(u)
    ELSE SimpleBranch(u)

\* lines 136-167: the replies to the user
ReplyToUser(u, bd) ==
    IF AdminAvailable(bd) THEN AvailableBranch(u)
    ELSE IF genai_client THEN GeminiBranch(u)
    ELSE SimpleBranch(u)

handle_message(u, bd) ==
    { Outcome(a.bot_data, a.calls \o r.calls, r.gen, r.raised) :
        a \in ForwardToAdmin(u, bd), r \in ReplyToUser(u, bd) }

\* lines 170-171
photo_handler(u, bd) == handle_message(u, bd)

----------------------------------------------------------------------------
(* The bot *)

\* the forwards of line 121 among the calls: the copies delivered into the
\* administrator's chat under an id of MsgIds (the copy that line 107 makes
\* has the id 0, whatever chat it goes to)
Forwarded(calls) ==
    { i \in 1..Len(calls) :
        /\ calls[i].op = "forward_message"
        /\ calls[i].chat_id = ADMIN_ID
        /\ calls[i].ok
        /\ calls[i].id[1] \in MsgIds }

RECURSIVE Remember(_, _, _)
Remember(hist, calls, is) ==
    IF is = {} THEN hist
    ELSE LET i == CHOOSE x \in is : TRUE
         IN  Remember(Put(hist, calls[i].id[1], calls[i].from_chat_id),
                      calls, is \ {i})

\* the administrator's latest availability command once h has handled u
LatestCommand(u, h) ==
    IF u.user = ADMIN_ID /\ h = "available_cmd" THEN "available"
    ELSE IF u.user = ADMIN_ID /\ h = "away_cmd" THEN "away"
    ELSE admin_cmd

\* a handler that is not running
Idle ==
    [pc |-> "done", update |-> NoUpdate, id |-> None, available |-> FALSE,
     user_chat_id |-> None]

\* the update u was handled by handler h with outcome r
Handled(u, h, r) ==
    /\ bot_data' = r.bot_data
    /\ origin' = Remember(origin, r.calls, Forwarded(r.calls))
    /\ admin_cmd' = LatestCommand(u, h)
    /\ last' = [update |-> u, handler |-> h, calls |-> r.calls,
                gen |-> r.gen, raised |-> r.raised]
    /\ UNCHANGED <<genai_client, pkl, tasks>>

Init ==
    /\ bot_data = <<>>
    /\ genai_client \in BOOLEAN
    /\ pkl = bot_data
    /\ origin = EmptyMap
    /\ admin_cmd = "none"
    /\ tasks = [t \in 1..MaxTasks |-> Idle]
    /\ last = [update |-> NoUpdate, handler |-> "init", calls |-> <<>>,
               gen |-> <<>>, raised |-> FALSE]

StartCmd ==
    \E u \in Updates :
        /\ Handler(u) = "start_cmd"
        /\ \E r \in start_cmd(u, bot_data) : Handled(u, "start_cmd", r)

AvailableCmd ==
    \E u \in Updates :
        /\ Handler(u) = "available_cmd"
        /\ \E r \in available_cmd(u, bot_data) : Handled(u, "available_cmd", r)

AwayCmd ==
    \E u \in Updates :
        /\ Handler(u) = "away_cmd"
        /\ \E r \in away_cmd(u, bot_data) : Handled(u, "away_cmd", r)

AdminReplyHandler ==
    \E u \in Updates :
        /\ Handler(u) = "admin_reply_handler"
        /\ \E r \in admin_reply_handler(u, bot_data) :
              Handled(u, "admin_reply_handler", r)

PhotoHandler ==
    \E u \in Updates :
        /\ Handler(u) = "photo_handler"
        /\ \E r \in photo_handler(u, bot_data) : Handled(u, "photo_handler", r)

HandleMessage ==
    \E u \in Updates :
        /\ Handler(u) = "handle_message"
        /\ \E r \in handle_message(u, bot_data) : Handled(u, "handle_message", r)

\* no handler matches: the update is dropped
Unhandled ==
    \E u \in Updates :
        /\ Handler(u) = "none"
        /\ Handled(u, "none", Outcome(bot_data, <<>>, <<>>, FALSE))

Next ==
    \/ StartCmd
    \/ AvailableCmd
    \/ AwayCmd
    \/ AdminReplyHandler
    \/ PhotoHandler
    \/ HandleMessage
    \/ Unhandled

Spec == Init /\ [][Next]_vars

----------------------------------------------------------------------------
(* Persistence, lines 66-67 and 175.  The handlers only assign into        *)
(* context.bot_data; none of them writes the file.  The Application hands  *)
(* bot_data to the PicklePersistence from its own periodic task, so the    *)
(* write is a step of its own, at some moment after the handler returned.  *)

\* the persistence task writes the current bot_data to bot_data.pkl
Flush ==
    /\ pkl # bot_data
    /\ pkl' = bot_data
    /\ UNCHANGED <<bot_data, genai_client, origin, admin_cmd, last, tasks>>

\* the process dies and main() runs again: bot_data is what the file holds
Restart ==
    /\ last.handler # "restart"
    /\ bot_data' = pkl
    /\ last' = [update |-> NoUpdate, handler |-> "restart", calls |-> <<>>,
                gen |-> <<>>, raised |-> FALSE]
    /\ UNCHANGED <<genai_client, pkl, origin, admin_cmd, tasks>>

\* the handlers that read or write bot_data, the write of the file and the
\* restart
NextPersist ==
    \/ AvailableCmd
    \/ AwayCmd
    \/ AdminReplyHandler
    \/ HandleMessage
    \/ Flush
    \/ Restart

SpecPersist == Init /\ [][NextPersist]_vars

----------------------------------------------------------------------------
(* The handlers as coroutines.  Were the updates handled concurrently, a   *)
(* handler would give way to the others at each of its awaits - the        *)
(* outbound calls - and run alone between two of them.  A task is a        *)
(* handler in progress; a step runs it from one await to the next.         *)

Tasks == 1..MaxTasks

\* the updates whose handlers read or write bot_data: messages that are
\* not replies, and the administrator's commands and replies
ConcurrentUpdates ==
    { u \in Updates :
        \/ u.kind = "text" /\ u.reply_to = None
        \/ u.user = ADMIN_ID /\ u.kind \in {"available", "away"} /\ u.reply_to = None
        \/ u.user = ADMIN_ID /\ u.kind = "text" /\ u.reply_to # None }

Goto(t, task) ==
    /\ tasks' = [tasks EXCEPT ![t] = task]
    /\ UNCHANGED <<genai_client, pkl, admin_cmd, last>>

\* lines 114-121: handle_message starts and awaits forward_message
EnterHandleMessage(t) ==
    /\ tasks[t].pc = "done"
    /\ \E u \in ConcurrentUpdates :
          /\ Handler(u) = "handle_message"
          /\ Goto(t, [Idle EXCEPT !.pc = "forward_message", !.update = u])
    /\ UNCHANGED <<bot_data, origin>>

\* the transport delivers the copy under a new id, or the call raises and
\* the handler awaits the fallback send_message (lines 129-132)
ForwardReturns(t) ==
    /\ tasks[t].pc = "forward_message"
    /\ \/ \E f \in FreshIds :
              /\ origin' = Put(origin, f, tasks[t].update.chat)
              /\ Goto(t, [tasks[t] EXCEPT !.pc = "record", !.id = Some(f)])
       \/ /\ Goto(t, [tasks[t] EXCEPT !.pc = "send_message"])
          /\ UNCHANGED origin
    /\ UNCHANGED bot_data

\* lines 127-136, resumed after the forward: the entry is written, the flag
\* is read, and the handler awaits its first reply to the user
RecordAndRead(t) ==
    /\ tasks[t].pc = "record"
    /\ bot_data' = RecordForward(bot_data, tasks[t].id[1], tasks[t].update.chat)
    /\ Goto(t, [tasks[t] EXCEPT !.pc = "reply_text",
                                 !.available = AdminAvailable(bot_data)])
    /\ UNCHANGED origin

\* lines 133-136, resumed after the fallback, sent or not: the flag is read
FallbackReturns(t) ==
    /\ tasks[t].pc = "send_message"
    /\ Goto(t, [tasks[t] EXCEPT !.pc = "reply_text",
                                 !.available = AdminAvailable(bot_data)])
    /\ UNCHANGED <<bot_data, origin>>

\* lines 73-83: the flag is assigned, then the confirmation is awaited
EnterCommand(t) ==
    /\ tasks[t].pc = "done"
    /\ \E u \in ConcurrentUpdates :
          /\ Handler(u) \in {"available_cmd", "away_cmd"}
          /\ \E r \in (IF Handler(u) = "available_cmd"
                        THEN available_cmd(u, bot_data) ELSE away_cmd(u, bot_data)) :
                bot_data' = r.bot_data
          /\ Goto(t, [Idle EXCEPT !.pc = "reply_text", !.update = u])
    /\ UNCHANGED origin

\* lines 86-107: the administrator's reply resolves the replied-to id, then
\* awaits the delivery, or the "Cannot find" notice
EnterAdminReply(t) ==
    /\ tasks[t].pc = "done"
    /\ \E u \in ConcurrentUpdates :
          /\ Handler(u) = "admin_reply_handler"
          /\ LET user_chat_id == ResolveOrigin(ForwardedMap(bot_data), u.reply_to[1])
             IN  Goto(t, [Idle EXCEPT
                            !.pc = IF Falsy(user_chat_id) THEN "reply_text" ELSE "deliver",
                            !.update = u, !.user_chat_id = user_chat_id])
    /\ UNCHANGED <<bot_data, origin>>

\* the remaining awaits of a handler touch no state: it runs to its end
Returns(t) ==
    /\ tasks[t].pc \in {"reply_text", "deliver"}
    /\ Goto(t, Idle)
    /\ UNCHANGED <<bot_data, origin>>

NextConcurrent ==
    \E t \in Tasks :
        \/ EnterHandleMessage(t)
        \/ ForwardReturns(t)
        \/ RecordAndRead(t)
        \/ FallbackReturns(t)
        \/ EnterCommand(t)
        \/ EnterAdminReply(t)
        \/ Returns(t)

SpecConcurrent == Init /\ [][NextConcurrent]_vars

----------------------------------------------------------------------------
(* Vocabulary of the properties *)

RegisteredCommands == {"start", "available", "away"}

\* the last update went through handle_message (directly or by photo_handler)
RanHandleMessage == last.handler \in {"handle_message", "photo_handler"}

\* the last update is a message of a user that is not a command
UserMessage ==
    /\ last.handler # "init"
    /\ last.update.user # ADMIN_ID
    /\ ~FilterCommand(last.update)

\* the calls of the last handler that satisfy P, in order
CallsWhere(P(_)) == SelectSeq(last.calls, P)

IsDelivery(c) == c.op \in {"send_message", "forward_message"}

IsReplyText(c) == c.op = "reply_text"

IsForwardToAdmin(c) == c.op = "forward_message" /\ c.chat_id = ADMIN_ID

IntoUpdateChat(c) == c.chat_id = last.update.chat

\* the administrator replied (not with a registered command) to message id
\* last.update.reply_to[1]
AdminReplied ==
    /\ last.update.user = ADMIN_ID
    /\ last.update.reply_to # None
    /\ last.update.kind \notin RegisteredCommands

\* the positions of the generated reply among the calls: the reply_text
\* that follows the "I'm replying" notice
GeneratedReplyAt ==
    { i \in 2..Len(last.calls) :
        /\ last.calls[i - 1].op = "reply_text"
        /\ last.calls[i - 1].text = AWAY_REPLYING }

----------------------------------------------------------------------------
(* C1: when the administrator replies to a message id f that a user        *)
(* message from conversation o was forwarded under, whatever was handled   *)
(* in between, the reply is dispatched to admin_reply_handler, which makes *)
(* exactly one delivery, addressed to o, and addresses no other            *)
(* conversation except the administrator's own chat (the confirmation).    *)
C1_RoundTrip ==
    (AdminReplied /\ last.update.reply_to[1] \in DOMAIN origin) =>
        LET o == origin[last.update.reply_to[1]]
            d == CallsWhere(IsDelivery)
        IN  /\ last.handler = "admin_reply_handler"
            /\ Len(d) = 1
            /\ d[1].chat_id = o
            /\ \A i \in 1..Len(last.calls) :
                  last.calls[i].chat_id \in {o, last.update.chat}

\* the administrator answered the older of two forwards from different
\* conversations and the text went out
C1_Witness ==
    /\ AdminReplied
    /\ DOMAIN origin = {1, 2}
    /\ origin[1] # origin[2]
    /\ origin[1] # ADMIN_ID
    /\ last.update.reply_to = Some(1)
    /\ last.calls[1] = SendMessage(origin[1], USER_TEXT, TRUE)

(* C2: every message of a user that is not a command - a reply to an       *)
(* earlier message included - is relayed: a forward to the administrator   *)
(* is attempted and the user gets at least one reply.                      *)
C2_EveryUserMessageRelayed ==
    UserMessage =>
        /\ Len(CallsWhere(IsForwardToAdmin)) >= 1
        /\ Len(CallsWhere(IsReplyText)) >= 1

(* C3: a message handled while admin_available is true makes no call to    *)
(* the generation service, with or without a genai_client and whatever the *)
(* forward did.                                                            *)
C3_NoGenerationWhenAvailable ==
    (RanHandleMessage /\ AdminAvailable(bot_data)) => last.gen = <<>>

\* a user's message was forwarded while the administrator was available
\* and a genai_client existed
C3_Witness ==
    /\ RanHandleMessage
    /\ UserMessage
    /\ AdminAvailable(bot_data)
    /\ genai_client
    /\ last.calls[1].ok
    /\ Len(last.calls) = 2

(* C4: a user's message handled while the administrator is away and a     *)
(* genai_client exists makes exactly one generation call and sends the     *)
(* closing note after the generated reply, also when a send to the user    *)
(* fails.                                                                  *)
C4_OneGenerationThenClosing ==
    (RanHandleMessage /\ UserMessage /\ ~AdminAvailable(bot_data) /\ genai_client) =>
        /\ Len(last.gen) = 1
        /\ \E i \in GeneratedReplyAt :
              /\ Len(last.calls) = i + 1
              /\ last.calls[i + 1].text = NOTE_48H

(* C5: for a user's message, in each of the three branches handle_message, *)
(* before it returns, sends the branch's reply and then a further closing  *)
(* note, so the user is sent at least two messages, the last one the       *)
(* closing note (stated for the runs in which every call succeeds).        *)
C5_ClosingNoteAlways ==
    (/\ RanHandleMessage /\ UserMessage /\ ~last.raised
     /\ \A i \in 1..Len(last.calls) : last.calls[i].ok) =>
        LET r == CallsWhere(IsReplyText)
        IN  /\ Len(r) >= 2
            /\ r[Len(r)].text = NOTE_48H

(* C6: a user's message handled while the administrator is away and there  *)
(* is no genai_client makes exactly two sends into the user's              *)
(* conversation, the acknowledgment and then the closing note, and no      *)
(* generation call.                                                        *)
C6_AwayNoService ==
    (RanHandleMessage /\ UserMessage /\ ~AdminAvailable(bot_data) /\ ~genai_client) =>
        LET r == CallsWhere(IntoUpdateChat)
        IN  /\ Len(r) = 2
            /\ \A i \in 1..2 : r[i].op = "reply_text" /\ r[i].text = NOTE_48H
            /\ last.gen = <<>>

\* the two sends succeeded, in a group, after a forward that succeeded
C6_Witness ==
    /\ RanHandleMessage /\ UserMessage
    /\ ~AdminAvailable(bot_data) /\ ~genai_client
    /\ last.update.chat \in Groups
    /\ last.calls = <<ForwardMessage(ADMIN_ID, last.update, Some(1)),
                      ReplyText(last.update, NOTE_48H, TRUE),
                      ReplyText(last.update, NOTE_48H, TRUE)>>

(* C7: an administrator's reply to a message id that was never recorded    *)
(* sends the error notice to the administrator and nothing else, and       *)
(* leaves the routing table and the availability as they were.             *)
C7_UnknownIdNotFound ==
    [][ (/\ last'.update.user = ADMIN_ID
         /\ last'.update.reply_to # None
         /\ last'.update.kind \notin RegisteredCommands
         /\ last'.update.reply_to[1] \notin DOMAIN origin)
        => /\ last'.handler = "admin_reply_handler"
           /\ \E ok \in BOOLEAN :
                 last'.calls = <<ReplyText(last'.update, CANNOT_FIND_USER, ok)>>
           /\ bot_data' = bot_data
           /\ origin' = origin ]_vars

\* the table holds id 1, the administrator replied to id 2 and got the notice
C7_Witness ==
    /\ AdminReplied
    /\ DOMAIN origin = {1}
    /\ DOMAIN ForwardedMap(bot_data) = {1}
    /\ last.update.reply_to = Some(2)
    /\ last.calls = <<ReplyText(last.update, CANNOT_FIND_USER, TRUE)>>

(* C8: an available or away command of anyone but the administrator        *)
(* changes nothing in bot_data and sends nothing; so the availability      *)
(* changes only in steps that handle an available or away command of the   *)
(* administrator.                                                          *)
C8_OnlyAdminSetsAvailability ==
    [][ /\ (/\ last'.handler \in {"available_cmd", "away_cmd"}
            /\ last'.update.user # ADMIN_ID)
           => (bot_data' = bot_data /\ last'.calls = <<>>)
        /\ (\/ ("admin_available" \in DOMAIN bot_data')
                  # ("admin_available" \in DOMAIN bot_data)
            \/ AdminAvailable(bot_data') # AdminAvailable(bot_data))
           => (/\ last'.handler \in {"available_cmd", "away_cmd"}
               /\ last'.update.user = ADMIN_ID) ]_vars

\* a user's available command was handled while the administrator was away
\* and a routing entry existed
C8_Witness ==
    /\ last.handler = "available_cmd"
    /\ last.update.user # ADMIN_ID
    /\ last.calls = <<>>
    /\ "admin_available" \in DOMAIN bot_data
    /\ ~AdminAvailable(bot_data)
    /\ DOMAIN ForwardedMap(bot_data) # {}

(* C9: whatever ask_gemini returns, the text sent as the generated reply   *)
(* has at most MAX_REPLY_LEN characters, and a return of at most           *)
(* MAX_REPLY_LEN characters is sent unchanged.                             *)
C9_SentReplyWithinLimit ==
    (RanHandleMessage /\ last.gen # <<>>) =>
        /\ GeneratedReplyAt # {}
        /\ \A i \in GeneratedReplyAt :
              LET reply == ask_gemini(genai_client, last.gen[1])
                  sent == last.calls[i].text
              IN  /\ len(sent) <= MAX_REPLY_LEN
                  /\ len(reply) <= MAX_REPLY_LEN => sent = reply

\* an over-long text was returned to a user's message and its reply went out
C9_Witness ==
    /\ RanHandleMessage /\ UserMessage
    /\ last.gen # <<>>
    /\ len(ask_gemini(genai_client, last.gen[1])) > MAX_REPLY_LEN
    /\ \E i \in GeneratedReplyAt : last.calls[i].ok

(* C10, as stated: a generated reply of MAX_REPLY_LEN + 1 characters is    *)
(* sent with exactly MAX_REPLY_LEN characters.                             *)
C10_ExactlyMax ==
    (RanHandleMessage /\ UserMessage /\ last.gen # <<>>) =>
        \A i \in GeneratedReplyAt :
            (/\ last.gen[1].ok
             /\ len(last.gen[1].text) = MAX_REPLY_LEN + 1
             /\ ask_gemini(genai_client, last.gen[1]) = last.gen[1].text)
                => len(last.calls[i].text) = MAX_REPLY_LEN

(* C10, amended: a generated reply of more than MAX_REPLY_LEN characters   *)
(* is sent as its first TRUNCATED_BODY_LEN characters followed by "...",   *)
(* TRUNCATED_BODY_LEN + 3 characters in all.                               *)
C10_TruncatedBodyPlusEllipsis ==
    (RanHandleMessage /\ last.gen # <<>>) =>
        \A i \in GeneratedReplyAt :
            LET reply == ask_gemini(genai_client, last.gen[1])
                sent == last.calls[i].text
            IN  len(reply) > MAX_REPLY_LEN =>
                  /\ len(sent) = TRUNCATED_BODY_LEN + 3
                  /\ Take(sent.runs, TRUNCATED_BODY_LEN)
                        = Take(reply.runs, TRUNCATED_BODY_LEN)
                  /\ sent.runs[Len(sent.runs)] = [c |-> ".", n |-> 3]

\* the service returned MAX_REPLY_LEN + 1 characters and the reply was sent
C10_Witness ==
    /\ RanHandleMessage
    /\ last.gen # <<>>
    /\ last.gen[1].ok
    /\ len(last.gen[1].text) = MAX_REPLY_LEN + 1
    /\ \E i \in GeneratedReplyAt : len(last.calls[i].text) < MAX_REPLY_LEN

(* C11: an administrator reply to a tracked id makes exactly one delivery  *)
(* to the origin conversation - the text of the reply if it has one, else  *)
(* a forward of the reply itself - and exactly one confirmation to the     *)
(* administrator: "Sent to user" if the delivery went through, "Failed to  *)
(* send" if it did not, never both and never the one for the other.        *)
(* Stated for the replies to a user's message that admin_reply_handler     *)
(* handled without an exception leaving it.                                *)
C11_OneDeliveryOneConfirmation ==
    (/\ AdminReplied
     /\ last.update.reply_to[1] \in DOMAIN origin
     /\ origin[last.update.reply_to[1]] # ADMIN_ID
     /\ ~last.raised) =>
        LET o == origin[last.update.reply_to[1]]
            d == CallsWhere(IsDelivery)
            c == CallsWhere(IsReplyText)
        IN  /\ Len(d) = 1
            /\ \E ok \in BOOLEAN : d[1] = Deliver(last.update, o, ok)
            /\ Len(c) = 1
            /\ c[1].text = IF d[1].ok THEN SENT_TO_USER ELSE FAILED_TO_SEND

(* C12: what a handler wrote to bot_data is in bot_data.pkl when the       *)
(* handler returns, so that after a crash and restart at any later moment  *)
(* bot_data holds the entry of every user message that was forwarded and   *)
(* recorded before the crash.                                              *)
C12_RestartKeepsEntries ==
    last.handler = "restart" =>
        \A f \in DOMAIN origin :
            origin[f] # ADMIN_ID =>
                /\ f \in DOMAIN ForwardedMap(bot_data)
                /\ ForwardedMap(bot_data)[f] = origin[f]

(* C13: no failure of an outbound call leaves a handler: whichever handler *)
(* ran (start_cmd, available_cmd, away_cmd, admin_reply_handler,           *)
(* handle_message, photo_handler) and whichever of its calls raised, the   *)
(* handler returned normally.                                              *)
C13_NoFailureEscapes ==
    \A i \in 1..Len(last.calls) : ~last.calls[i].ok => ~last.raised

(* C14: in handle_message, when the forward to the administrator raises,   *)
(* exactly one plain-text fallback notification to the administrator is    *)
(* attempted, bot_data is left as it was, and - whether the fallback went  *)
(* through or raised - the first reply to the user follows, chosen by      *)
(* admin_available.  When the forward succeeds no fallback is sent and the *)
(* entry id -> conversation is added: forwarded_map changes exactly when   *)
(* the forward succeeded.                                                  *)
C14_ForwardFailureFallsBack ==
    [][ last'.handler \in {"handle_message", "photo_handler"} =>
          LET u == last'.update
              c == last'.calls
              fallbacks == { i \in 1..Len(c) : c[i].op = "send_message" }
              fm == ForwardedMap(bot_data)
          IN  /\ Len(c) >= 1
              /\ c[1].op = "forward_message"
              /\ c[1].chat_id = ADMIN_ID
              /\ ~c[1].ok =>
                    /\ fallbacks = {2}
                    /\ c[2].chat_id = ADMIN_ID
                    /\ c[2].text = FallbackText(u)
                    /\ bot_data' = bot_data
                    /\ Len(c) >= 3
                    /\ c[3].op = "reply_text"
                    /\ c[3].chat_id = u.chat
                    /\ c[3].text = IF AdminAvailable(bot_data) \/ ~genai_client
                                   THEN NOTE_48H ELSE AWAY_REPLYING
              /\ c[1].ok =>
                    /\ fallbacks = {}
                    /\ ForwardedMap(bot_data') = Put(fm, c[1].id[1], u.chat)
              /\ (ForwardedMap(bot_data') # fm) <=> c[1].ok ]_vars

\* with an entry already recorded, a user's message could not be forwarded,
\* the fallback raised as well, and the user still got the first reply
C14_Witness ==
    /\ RanHandleMessage
    /\ UserMessage
    /\ DOMAIN ForwardedMap(bot_data) # {}
    /\ Len(last.calls) >= 3
    /\ ~last.calls[1].ok
    /\ last.calls[2].op = "send_message"
    /\ ~last.calls[2].ok
    /\ last.calls[3].ok

C16_GenerationFailureDegrades ==
    (RanHandleMessage /\ last.gen # <<>> /\ ~last.gen[1].ok) =>
        LET c == last.calls
            n == Len(c)
        IN  /\ Len(last.gen) = 1
            /\ ~last.raised
            /\ ask_gemini(genai_client, last.gen[1]) = GEMINI_ERROR_TEXT
            /\ n >= 3
            /\ c[n - 2] = ReplyText(last.update, AWAY_REPLYING, TRUE)
            /\ c[n - 1] = ReplyText(last.update, GEMINI_ERROR_TEXT, c[n - 1].ok)
            /\ c[n] = ReplyText(last.update, NOTE_48H, c[n].ok)

\* generate_content raised on a user's message; the fixed text and the note
\* both reached the user
C16_Witness ==
    /\ RanHandleMessage
    /\ UserMessage
    /\ last.gen # <<>>
    /\ ~last.gen[1].ok
    /\ \E i \in GeneratedReplyAt :
          /\ last.calls[i].text = GEMINI_ERROR_TEXT
          /\ last.calls[i].ok
          /\ i + 1 = Len(last.calls)
          /\ last.calls[i + 1].ok

(* C17: admin_available is false until the administrator's first command,  *)
(* true after the administrator's /available and false after the           *)
(* administrator's /away, also when the confirmation of the command        *)
(* raised; neither command touches forwarded_map; and handle_message       *)
(* answers the user by the value the latest such command set: the 48-hour  *)
(* note alone and no generation call after /available; else the "I'm       *)
(* replying" notice first when there is a genai_client, and the note twice *)
(* when there is none.                                                     *)
C17_AvailabilityFollowsLastCommand ==
    /\ [](AdminAvailable(bot_data) = (admin_cmd = "available"))
    /\ [](RanHandleMessage =>
            LET c == last.calls
                k == IF c[1].ok THEN 1 ELSE 2
                replies == SubSeq(c, k + 1, Len(c))
            IN  /\ \A i \in 1..Len(replies) : replies[i].op = "reply_text"
                /\ Len(replies) >= 1
                /\ IF admin_cmd = "available"
                   THEN /\ Len(replies) = 1
                        /\ replies[1].text = NOTE_48H
                        /\ last.gen = <<>>
                   ELSE IF genai_client
                   THEN replies[1].text = AWAY_REPLYING
                   ELSE /\ Len(replies) = 2
                        /\ replies[1].text = NOTE_48H
                        /\ replies[2].text = NOTE_48H
                        /\ last.gen = <<>>)
    /\ [][ last'.handler \in {"available_cmd", "away_cmd"} =>
             ForwardedMap(bot_data') = ForwardedMap(bot_data) ]_vars

\* with entries recorded, the administrator's /away set the flag to false
\* although its confirmation raised
C17_Witness ==
    /\ last.handler = "away_cmd"
    /\ last.update.user = ADMIN_ID
    /\ last.raised
    /\ DOMAIN ForwardedMap(bot_data) # {}
    /\ "admin_available" \in DOMAIN bot_data
    /\ ~bot_data["admin_available"]

(* C18: a message of the administrator that is neither a command nor a     *)
(* reply is not relayed: no forward into the administrator's chat, no      *)
(* generation call, no reply to it, and the administrator's own chat is    *)
(* never a value of forwarded_map.                                         *)
C18_AdminMessagesNotRelayed ==
    /\ \A f \in DOMAIN ForwardedMap(bot_data) : ForwardedMap(bot_data)[f] # ADMIN_ID
    /\ (/\ last.update.user = ADMIN_ID
        /\ ~FilterCommand(last.update)
        /\ last.update.reply_to = None) =>
            /\ CallsWhere(IsForwardToAdmin) = <<>>
            /\ CallsWhere(IsReplyText) = <<>>
            /\ last.gen = <<>>

(* C19: with handlers interleaved at their awaits, every message that was  *)
(* forwarded either has its entry id -> own conversation in forwarded_map  *)
(* or its handler is about to write it, so that when no handler is in      *)
(* progress every forwarded message has its own entry; no step removes or  *)
(* changes an entry another handler wrote; and a reply of the              *)
(* administrator is delivered to the conversation its id was forwarded     *)
(* from.                                                                   *)
C19_InterleavedHandlersKeepEntries ==
    /\ [](\A f \in DOMAIN origin :
            \/ /\ f \in DOMAIN ForwardedMap(bot_data)
               /\ ForwardedMap(bot_data)[f] = origin[f]
            \/ \E t \in Tasks :
                  /\ tasks[t].pc = "record"
                  /\ tasks[t].id = Some(f)
                  /\ tasks[t].update.chat = origin[f])
    /\ []((\A t \in Tasks : tasks[t].pc = "done") =>
            ForwardedMap(bot_data) = origin)
    /\ [](\A t \in Tasks :
            tasks[t].pc = "deliver" =>
                tasks[t].user_chat_id = Some(origin[tasks[t].update.reply_to[1]]))
    /\ [][ \A f \in DOMAIN ForwardedMap(bot_data) :
             /\ f \in DOMAIN ForwardedMap(bot_data')
             /\ ForwardedMap(bot_data')[f] = ForwardedMap(bot_data)[f] ]_vars

\* two handlers overlapped: the copy of task 1 got id 1 and is not yet
\* recorded, while task 2, whose copy came later from another conversation,
\* has already written its entry
C19_Witness ==
    /\ tasks[1].pc = "record"
    /\ tasks[1].id = Some(1)
    /\ tasks[2].pc = "reply_text"
    /\ tasks[2].id = Some(2)
    /\ tasks[1].update.chat # tasks[2].update.chat
    /\ DOMAIN ForwardedMap(bot_data) = {2}

(* C20: a message of a sender other than the administrator that replies to *)
(* any message id, a key of forwarded_map included, leaves bot_data as it  *)
(* was and makes no send_message and no forward_message; unless it is the  *)
(* /start command, which start_cmd answers in the sender's own chat, it    *)
(* goes to admin_reply_handler, which makes no call at all.                *)
C20_OnlyAdminRepliesAreRouted ==
    [][ (last'.update.user \in Users /\ last'.update.reply_to # None) =>
          /\ bot_data' = bot_data
          /\ last'.gen = <<>>
          /\ \A i \in 1..Len(last'.calls) :
                last'.calls[i] = ReplyText(last'.update, NOTE_48H, last'.calls[i].ok)
          /\ last'.update.kind # "start" => last'.calls = <<>>
          /\ last'.update.kind \notin RegisteredCommands =>
                last'.handler = "admin_reply_handler" ]_vars

\* a user replied with a text to an id under which another conversation's
\* message is recorded, and nothing was sent
C20_Witness ==
    /\ last.handler = "admin_reply_handler"
    /\ last.update.user \in Users
    /\ last.update.kind = "text"
    /\ last.update.reply_to # None
    /\ last.update.reply_to[1] \in DOMAIN ForwardedMap(bot_data)
    /\ ForwardedMap(bot_data)[last.update.reply_to[1]] # last.update.chat
    /\ last.calls = <<>>

====
